---- MODULE Spec2Model ----
(***************************************************************************)
(* State-machine model of programs/drift/src/state/spot_market.rs:         *)
(* the SpotMarket record and its read-only queries (is_active,             *)
(* is_reduce_only, get_sanitize_clamp_denominator, get_asset_weight,       *)
(* get_liability_weight, get_margin_ratio, get_available_deposits,         *)
(* get_precision).                                                         *)
(*                                                                         *)
(* Integer widths.  TLC computes with 32-bit integers, so the program's    *)
(* u128 and u64 are modelled by unsigned words of U128Bits and U64Bits     *)
(* bits, and the powers of ten the program works with are scaled with      *)
(* them (AMM_RESERVE_PRECISION is 10^AMM_RESERVE_EXP).  The structure the  *)
(* code depends on is kept: 10^decimals fits the word for small decimals   *)
(* and overflows it for large ones, 10^decimals may be below, equal to or  *)
(* above AMM_RESERVE_PRECISION, and size * AMM_RESERVE_PRECISION overflows *)
(* the word for sizes near its top.                                        *)
(*                                                                         *)
(* Unchecked arithmetic.  `*` and `pow` on Rust integers panic when the    *)
(* crate is built with overflow checks and wrap modulo 2^w when it is      *)
(* not; the build setting is not part of the file, so it is the variable   *)
(* overflow_checks, chosen in the initial state.  Division by zero panics  *)
(* in every build.  A call therefore ends in one of Ok(v), Err (the        *)
(* arithmetic error of DriftResult) or Panic (the call aborts).            *)
(***************************************************************************)
EXTENDS Integers, Sequences, FiniteSets, TLC

VARIABLES market, now, overflow_checks, call

vars == <<market, now, overflow_checks, call>>

----------------------------------------------------------------------------
(* Bounds of the model *)

U128Bits == 16

U64Bits == 8

MaxDecimals == 6

MaxNow == 3

----------------------------------------------------------------------------
(* Constants of crate::math::constants, scaled to the model's word *)

AMM_RESERVE_EXP == 2

AMM_RESERVE_PRECISION == 10 ^ AMM_RESERVE_EXP

MARGIN_PRECISION == 10000

SPOT_WEIGHT_PRECISION_U128 == 10000

SPOT_IMF_PRECISION_U128 == 1000

SPOT_CUMULATIVE_INTEREST_PRECISION == 10

U128_MAX == 2 ^ U128Bits - 1

U64_MAX == 2 ^ U64Bits - 1

----------------------------------------------------------------------------
(* Results of a call *)

Ok(v) == <<"Ok", v>>

Err == <<"Err", 0>>

Panic == <<"Panic", 0>>

Some(v) == <<"Some", v>>

None == <<"None", 0>>

IsOk(r) == r[1] = "Ok"

Min(a, b) == IF a <= b THEN a ELSE b

Max(a, b) == IF a >= b THEN a ELSE b

----------------------------------------------------------------------------
(* Enumerations *)

MarketStatus == {"Initialized", "Active", "ReduceOnly", "Settlement", "Delisted"}

AssetTier == {"Collateral", "Protected", "Cross", "Isolated", "Unlisted"}

MarginRequirementType == {"Initial", "Maintenance"}

SpotBalanceType == {"Deposit", "Borrow"}

----------------------------------------------------------------------------
(* The SpotMarket record: the fields the queries read *)

SpotMarket_default ==
    [ status |-> "Initialized",
      asset_tier |-> "Unlisted",
      expiry_ts |-> 0,
      decimals |-> 0,
      imf_factor |-> 0,
      initial_asset_weight |-> 0,
      maintenance_asset_weight |-> 0,
      initial_liability_weight |-> 0,
      maintenance_liability_weight |-> 0,
      deposit_balance |-> 0,
      borrow_balance |-> 0,
      cumulative_deposit_interest |-> 0,
      cumulative_borrow_interest |-> 0 ]

default_base_market ==
    [ SpotMarket_default EXCEPT
        !.cumulative_deposit_interest = SPOT_CUMULATIVE_INTEREST_PRECISION,
        !.cumulative_borrow_interest = SPOT_CUMULATIVE_INTEREST_PRECISION,
        !.initial_liability_weight = 12000,
        !.maintenance_liability_weight = 11000,
        !.initial_asset_weight = 8000,
        !.maintenance_asset_weight = 9000,
        !.decimals = AMM_RESERVE_EXP,
        !.status = "Active" ]

default_quote_market ==
    [ SpotMarket_default EXCEPT
        !.cumulative_deposit_interest = SPOT_CUMULATIVE_INTEREST_PRECISION,
        !.cumulative_borrow_interest = SPOT_CUMULATIVE_INTEREST_PRECISION,
        !.decimals = AMM_RESERVE_EXP - 1,
        !.initial_liability_weight = 10000,
        !.maintenance_liability_weight = 10000,
        !.initial_asset_weight = 10000,
        !.maintenance_asset_weight = 10000,
        !.status = "Active" ]

----------------------------------------------------------------------------
(* Unchecked machine arithmetic: `*` and `pow` of a `bits`-wide unsigned   *)
(* word.  With overflow checks the operation panics on overflow, without   *)
(* them it wraps modulo 2^bits.                                            *)

RECURSIVE WrappingPow10(_, _)
WrappingPow10(exp, bits) ==
    IF exp = 0 THEN 1 ELSE (WrappingPow10(exp - 1, bits) * 10) % (2 ^ bits)

RECURSIVE Pow10Overflows(_, _)
Pow10Overflows(exp, bits) ==
    IF exp = 0 THEN FALSE
    ELSE \/ Pow10Overflows(exp - 1, bits)
         \/ WrappingPow10(exp - 1, bits) * 10 > 2 ^ bits - 1

UncheckedPow10(exp, bits, checks) ==
    IF Pow10Overflows(exp, bits)
    THEN IF checks THEN Panic ELSE Ok(WrappingPow10(exp, bits))
    ELSE Ok(WrappingPow10(exp, bits))

UncheckedMul(a, b, bits, checks) ==
    IF a * b > 2 ^ bits - 1
    THEN IF checks THEN Panic ELSE Ok((a * b) % (2 ^ bits))
    ELSE Ok(a * b)

UncheckedDiv(a, b) == IF b = 0 THEN Panic ELSE Ok(a \div b)

----------------------------------------------------------------------------
(* crate::math::safe_math, crate::math::margin, crate::math::spot_balance: *)
(* their code is not in spot_market.rs; they follow sections 4.1 to 4.3 of *)
(* the specification.                                                      *)

safe_sub(a, b) == IF b > a THEN Err ELSE Ok(a - b)

safe_mul_u128(a, b) == IF a * b > U128_MAX THEN Err ELSE Ok(a * b)

RECURSIVE nth_root_2_search(_, _, _)
nth_root_2_search(n, lo, hi) ==
    IF lo = hi THEN lo
    ELSE LET mid == (lo + hi + 1) \div 2
         IN IF mid * mid <= n
            THEN nth_root_2_search(n, mid, hi)
            ELSE nth_root_2_search(n, lo, mid - 1)

nth_root_2(n) == nth_root_2_search(n, 0, 2 ^ ((U128Bits + 1) \div 2))

\* tokenAmount of section 4.2: balance times the side's cumulative interest
\* index, divided by the interest precision; an overflow is an arithmetic error.
get_token_amount(balance, spot_market, balance_type) ==
    LET cumulative_interest ==
            IF balance_type = "Deposit"
            THEN spot_market.cumulative_deposit_interest
            ELSE spot_market.cumulative_borrow_interest
        product == safe_mul_u128(balance, cumulative_interest)
    IN IF IsOk(product)
       THEN Ok(product[2] \div SPOT_CUMULATIVE_INTEREST_PRECISION)
       ELSE Err

\* The square root of the size, in the curve's unit.
size_sqrt(size) == nth_root_2(size * 10 + 1)

\* Asset-weight discount of section 4.3: no-op for imf_factor = 0, otherwise the
\* weight falls with the square root of the size and is never above the base.
calculate_size_discount_asset_weight(size, imf_factor, asset_weight) ==
    IF imf_factor = 0 THEN Ok(asset_weight)
    ELSE IF size * 10 + 1 > U128_MAX THEN Err
    ELSE LET imf_numerator == SPOT_IMF_PRECISION_U128 + SPOT_IMF_PRECISION_U128 \div 10
             denominator ==
                 SPOT_IMF_PRECISION_U128 + (size_sqrt(size) * imf_factor) \div 1000
             size_discount_asset_weight ==
                 (imf_numerator * SPOT_WEIGHT_PRECISION_U128) \div denominator
         IN Ok(Min(asset_weight, size_discount_asset_weight))

\* Liability-weight premium of section 4.3: no-op for imf_factor = 0, otherwise
\* four fifths of the base weight plus a term that grows with the square root of
\* the size; the value is the curve's own and may lie below the base weight.
calculate_size_premium_liability_weight(size, imf_factor, liability_weight, precision) ==
    IF imf_factor = 0 THEN Ok(liability_weight)
    ELSE IF size * 10 + 1 > U128_MAX THEN Err
    ELSE LET liability_weight_numerator == liability_weight - liability_weight \div 5
             premium ==
                 (size_sqrt(size) * imf_factor)
                     \div ((1000 * SPOT_IMF_PRECISION_U128) \div precision)
         IN Ok(liability_weight_numerator + premium)

----------------------------------------------------------------------------
(* impl SpotMarket *)

\* is_active with the two conditions joined by "or".
is_active_either(self, now_) ==
    LET status_ok == ~(self.status \in {"Settlement", "Delisted"})
        not_expired == self.expiry_ts = 0 \/ now_ < self.expiry_ts
    IN Ok(status_ok \/ not_expired)

\* is_active that still counts the expiry instant itself as not expired.
is_active_inclusive(self, now_) ==
    LET status_ok == ~(self.status \in {"Settlement", "Delisted"})
        not_expired == self.expiry_ts = 0 \/ now_ <= self.expiry_ts
    IN Ok(status_ok /\ not_expired)

is_active(self, now_) ==
    LET status_ok == ~(self.status \in {"Settlement", "Delisted"})
        not_expired == self.expiry_ts = 0 \/ now_ < self.expiry_ts
    IN Ok(status_ok /\ not_expired)

is_reduce_only(self) == Ok(self.status = "ReduceOnly")

\* The table with the Isolated row given the Cross value.
get_sanitize_clamp_denominator_shifted(self) ==
    Ok(CASE self.asset_tier = "Collateral" -> Some(10)
         [] self.asset_tier = "Protected" -> Some(10)
         [] self.asset_tier = "Cross" -> Some(5)
         [] self.asset_tier = "Isolated" -> Some(5)
         [] self.asset_tier = "Unlisted" -> None)

get_sanitize_clamp_denominator(self) ==
    Ok(CASE self.asset_tier = "Collateral" -> Some(10)
         [] self.asset_tier = "Protected" -> Some(10)
         [] self.asset_tier = "Cross" -> Some(5)
         [] self.asset_tier = "Isolated" -> Some(3)
         [] self.asset_tier = "Unlisted" -> None)

\* Lines 103-109: the local size_in_amm_reserve_precision of get_asset_weight.
asset_size_in_amm_reserve_precision(self, size, checks) ==
    LET size_precision == UncheckedPow10(self.decimals, U128Bits, checks)
    IN IF ~IsOk(size_precision) THEN Panic
       ELSE IF size_precision[2] > AMM_RESERVE_PRECISION
       THEN UncheckedDiv(size, size_precision[2] \div AMM_RESERVE_PRECISION)
       ELSE LET scaled == UncheckedMul(size, AMM_RESERVE_PRECISION, U128Bits, checks)
            IN IF ~IsOk(scaled) THEN Panic
               ELSE UncheckedDiv(scaled[2], size_precision[2])

\* get_asset_weight that sends the Maintenance weight through the curve too.
get_asset_weight_curve_always(self, size, margin_requirement_type, checks) ==
    LET size_in_amm_reserve_precision ==
            asset_size_in_amm_reserve_precision(self, size, checks)
    IN IF ~IsOk(size_in_amm_reserve_precision) THEN Panic
       ELSE calculate_size_discount_asset_weight(
                size_in_amm_reserve_precision[2],
                self.imf_factor,
                IF margin_requirement_type = "Initial"
                THEN self.initial_asset_weight
                ELSE self.maintenance_asset_weight)

get_asset_weight(self, size, margin_requirement_type, checks) ==
    LET size_in_amm_reserve_precision ==
            asset_size_in_amm_reserve_precision(self, size, checks)
    IN IF ~IsOk(size_in_amm_reserve_precision) THEN Panic
       ELSE IF margin_requirement_type = "Initial"
       THEN calculate_size_discount_asset_weight(
                size_in_amm_reserve_precision[2],
                self.imf_factor,
                self.initial_asset_weight)
       ELSE Ok(self.maintenance_asset_weight)

\* Lines 126-132: the local size_in_amm_reserve_precision of get_liability_weight.
liability_size_in_amm_reserve_precision(self, size, checks) ==
    LET size_precision == UncheckedPow10(self.decimals, U128Bits, checks)
    IN IF ~IsOk(size_precision) THEN Panic
       ELSE IF size_precision[2] > AMM_RESERVE_PRECISION
       THEN UncheckedDiv(size, size_precision[2] \div AMM_RESERVE_PRECISION)
       ELSE LET scaled == UncheckedMul(size, AMM_RESERVE_PRECISION, U128Bits, checks)
            IN IF ~IsOk(scaled) THEN Panic
               ELSE UncheckedDiv(scaled[2], size_precision[2])

\* get_liability_weight that returns the curve's value without the max.
get_liability_weight_no_max(self, size, margin_requirement_type, checks) ==
    LET size_in_amm_reserve_precision ==
            liability_size_in_amm_reserve_precision(self, size, checks)
        default_liability_weight ==
            IF margin_requirement_type = "Initial"
            THEN self.initial_liability_weight
            ELSE self.maintenance_liability_weight
    IN IF ~IsOk(size_in_amm_reserve_precision) THEN Panic
       ELSE calculate_size_premium_liability_weight(
                size_in_amm_reserve_precision[2],
                self.imf_factor,
                default_liability_weight,
                SPOT_WEIGHT_PRECISION_U128)

get_liability_weight(self, size, margin_requirement_type, checks) ==
    LET size_in_amm_reserve_precision ==
            liability_size_in_amm_reserve_precision(self, size, checks)
        default_liability_weight ==
            IF margin_requirement_type = "Initial"
            THEN self.initial_liability_weight
            ELSE self.maintenance_liability_weight
    IN IF ~IsOk(size_in_amm_reserve_precision) THEN Panic
       ELSE LET size_based_liability_weight ==
                    calculate_size_premium_liability_weight(
                        size_in_amm_reserve_precision[2],
                        self.imf_factor,
                        default_liability_weight,
                        SPOT_WEIGHT_PRECISION_U128)
            IN IF ~IsOk(size_based_liability_weight) THEN Err
               ELSE Ok(Max(size_based_liability_weight[2], default_liability_weight))

\* get_margin_ratio with a saturating subtraction.
get_margin_ratio_saturating(self, margin_requirement_type) ==
    LET liability_weight ==
            IF margin_requirement_type = "Initial"
            THEN self.initial_liability_weight
            ELSE self.maintenance_liability_weight
    IN Ok(Max(liability_weight - MARGIN_PRECISION, 0))

get_margin_ratio(self, margin_requirement_type) ==
    LET liability_weight ==
            IF margin_requirement_type = "Initial"
            THEN self.initial_liability_weight
            ELSE self.maintenance_liability_weight
    IN safe_sub(liability_weight, MARGIN_PRECISION)

\* get_available_deposits with a saturating subtraction.
get_available_deposits_saturating(self) ==
    LET deposit_token_amount == get_token_amount(self.deposit_balance, self, "Deposit")
        borrow_token_amount == get_token_amount(self.borrow_balance, self, "Borrow")
    IN IF ~IsOk(deposit_token_amount) THEN Err
       ELSE IF ~IsOk(borrow_token_amount) THEN Err
       ELSE Ok(Max(deposit_token_amount[2] - borrow_token_amount[2], 0))

get_available_deposits(self) ==
    LET deposit_token_amount == get_token_amount(self.deposit_balance, self, "Deposit")
        borrow_token_amount == get_token_amount(self.borrow_balance, self, "Borrow")
    IN IF ~IsOk(deposit_token_amount) THEN Err
       ELSE IF ~IsOk(borrow_token_amount) THEN Err
       ELSE safe_sub(deposit_token_amount[2], borrow_token_amount[2])

get_precision(self, checks) == UncheckedPow10(self.decimals, U64Bits, checks)

----------------------------------------------------------------------------
(* Inputs *)

Sizes ==
    { 0, 1, 7,
      AMM_RESERVE_PRECISION,
      4 * AMM_RESERVE_PRECISION,
      U128_MAX \div AMM_RESERVE_PRECISION,
      U128_MAX \div AMM_RESERVE_PRECISION + 1,
      U128_MAX \div 10,
      U128_MAX }

Decimals == 0 .. MaxDecimals

ImfFactors == {0, 50, 2000}

Timestamps == -1 .. MaxNow

ExpiryValues == {-1, 0, 1, 2}

BigBalance == U128_MAX \div SPOT_CUMULATIVE_INTEREST_PRECISION

Balances == {0, 5, 40, BigBalance}

CumulativeInterests ==
    { SPOT_CUMULATIVE_INTEREST_PRECISION,
      (3 * SPOT_CUMULATIVE_INTEREST_PRECISION) \div 2,
      2 * SPOT_CUMULATIVE_INTEREST_PRECISION }

TestMarkets == {default_base_market, default_quote_market}

NoCall ==
    [ op |-> "none", size |-> 0, mrt |-> "none", scaled |-> None, result |-> None ]

Returned(op, size, mrt, scaled, result) ==
    [ op |-> op, size |-> size, mrt |-> mrt, scaled |-> scaled, result |-> result ]

----------------------------------------------------------------------------
(* Initial states: one per family of queries *)

InitLifecycle ==
    /\ \E s \in MarketStatus, e \in ExpiryValues, t \in AssetTier :
          market = [default_base_market EXCEPT
                       !.status = s, !.expiry_ts = e, !.asset_tier = t]
    /\ now \in Timestamps
    /\ overflow_checks \in BOOLEAN
    /\ call = NoCall

InitWeights ==
    /\ \/ \E m \in TestMarkets, d \in Decimals, f \in ImfFactors :
             market = [m EXCEPT !.decimals = d, !.imf_factor = f]
       \/ \E d \in Decimals :
             market = [SpotMarket_default EXCEPT !.decimals = d]
    /\ now = 0
    /\ overflow_checks \in BOOLEAN
    /\ call = NoCall

InitBalances ==
    /\ \E d \in Balances, b \in Balances,
          cd \in CumulativeInterests, cb \in CumulativeInterests :
          market = [default_base_market EXCEPT
                       !.deposit_balance = d,
                       !.borrow_balance = b,
                       !.cumulative_deposit_interest = cd,
                       !.cumulative_borrow_interest = cb]
    /\ now = 0
    /\ overflow_checks \in BOOLEAN
    /\ call = NoCall

----------------------------------------------------------------------------
(* The market's surroundings: the clock and the governance of the status *)

AdvanceClock ==
    /\ \E t \in Timestamps : t > now /\ now' = t
    /\ call' = NoCall
    /\ UNCHANGED <<market, overflow_checks>>

SetStatus(s) ==
    /\ s # market.status
    /\ market' = [market EXCEPT !.status = s]
    /\ call' = NoCall
    /\ UNCHANGED <<now, overflow_checks>>

AccrueInterest ==
    /\ \E cd \in CumulativeInterests, cb \in CumulativeInterests :
          /\ cd >= market.cumulative_deposit_interest
          /\ cb >= market.cumulative_borrow_interest
          /\ <<cd, cb>> # <<market.cumulative_deposit_interest,
                            market.cumulative_borrow_interest>>
          /\ market' = [market EXCEPT
                           !.cumulative_deposit_interest = cd,
                           !.cumulative_borrow_interest = cb]
    /\ call' = NoCall
    /\ UNCHANGED <<now, overflow_checks>>

----------------------------------------------------------------------------
(* The queries: each records its arguments and its result in call *)

IsActive ==
    /\ call' = Returned("is_active", 0, "none", None, is_active(market, now))
    /\ UNCHANGED <<market, now, overflow_checks>>

IsReduceOnly ==
    /\ call' = Returned("is_reduce_only", 0, "none", None, is_reduce_only(market))
    /\ UNCHANGED <<market, now, overflow_checks>>

GetSanitizeClampDenominator ==
    /\ call' = Returned("get_sanitize_clamp_denominator", 0, "none", None,
                        get_sanitize_clamp_denominator(market))
    /\ UNCHANGED <<market, now, overflow_checks>>

GetAssetWeight(size, mrt) ==
    /\ call' = Returned("get_asset_weight", size, mrt,
                        asset_size_in_amm_reserve_precision(market, size, overflow_checks),
                        get_asset_weight(market, size, mrt, overflow_checks))
    /\ UNCHANGED <<market, now, overflow_checks>>

GetLiabilityWeight(size, mrt) ==
    /\ call' = Returned("get_liability_weight", size, mrt,
                        liability_size_in_amm_reserve_precision(market, size, overflow_checks),
                        get_liability_weight(market, size, mrt, overflow_checks))
    /\ UNCHANGED <<market, now, overflow_checks>>

GetMarginRatio(mrt) ==
    /\ call' = Returned("get_margin_ratio", 0, mrt, None, get_margin_ratio(market, mrt))
    /\ UNCHANGED <<market, now, overflow_checks>>

GetAvailableDeposits ==
    /\ call' = Returned("get_available_deposits", 0, "none", None,
                        get_available_deposits(market))
    /\ UNCHANGED <<market, now, overflow_checks>>

GetPrecision ==
    /\ call' = Returned("get_precision", 0, "none", None,
                        get_precision(market, overflow_checks))
    /\ UNCHANGED <<market, now, overflow_checks>>

----------------------------------------------------------------------------
(* Specifications *)

NextLifecycle ==
    \/ AdvanceClock
    \/ \E s \in MarketStatus : SetStatus(s)
    \/ IsActive
    \/ IsReduceOnly
    \/ GetSanitizeClampDenominator

SpecLifecycle == InitLifecycle /\ [][NextLifecycle]_vars

NextWeights ==
    \/ \E size \in Sizes, mrt \in MarginRequirementType : GetAssetWeight(size, mrt)
    \/ \E size \in Sizes, mrt \in MarginRequirementType : GetLiabilityWeight(size, mrt)
    \/ \E mrt \in MarginRequirementType : GetMarginRatio(mrt)
    \/ GetPrecision

SpecWeights == InitWeights /\ [][NextWeights]_vars

NextBalances ==
    \/ AccrueInterest
    \/ GetAvailableDeposits

SpecBalances == InitBalances /\ [][NextBalances]_vars

----------------------------------------------------------------------------
(* Properties *)

InactiveStatus == {"Settlement", "Delisted"}

Expired == market.expiry_ts # 0 /\ now >= market.expiry_ts

\* C1: is_active(now) returns true exactly when the status is neither
\* Settlement nor Delisted and (expiry_ts = 0 or now < expiry_ts); for every
\* other combination of status, expiry_ts and now it returns false.
C1_IsActiveIff ==
    call.op = "is_active" =>
        /\ call.result \in {Ok(TRUE), Ok(FALSE)}
        /\ (call.result = Ok(TRUE)) <=>
               /\ market.status \notin InactiveStatus
               /\ ~(market.expiry_ts # 0 /\ now >= market.expiry_ts)

\* An active market with an expiry still ahead of the clock.
C1_Witness ==
    /\ call.op = "is_active"
    /\ call.result = Ok(TRUE)
    /\ market.expiry_ts # 0
    /\ now < market.expiry_ts

\* C8: with expiry_ts fixed and non-zero, once now >= expiry_ts every call of
\* is_active from then on returns false, whatever the status is or becomes while
\* the clock advances; and is_active returns false whenever the status is
\* Settlement or Delisted, whatever expiry_ts and now are.
C8_InactiveOnceExpired ==
    /\ [](Expired => [](call.op = "is_active" => call.result = Ok(FALSE)))
    /\ []((call.op = "is_active" /\ market.status \in InactiveStatus)
              => call.result = Ok(FALSE))

\* is_active called on an Active market strictly after its expiry.
C8_Witness ==
    /\ call.op = "is_active"
    /\ market.status = "Active"
    /\ market.expiry_ts > 0
    /\ now > market.expiry_ts
    /\ call.result = Ok(FALSE)

ClampDenominatorTable ==
    [ t \in AssetTier |->
        IF t \in {"Collateral", "Protected"} THEN Some(10)
        ELSE IF t = "Cross" THEN Some(5)
        ELSE IF t = "Isolated" THEN Some(3)
        ELSE None ]

\* C9: get_sanitize_clamp_denominator never fails and returns the tabled value
\* of the market's tier: Collateral and Protected 10, Cross 5, Isolated 3,
\* Unlisted none.
C9_ClampDenominatorTable ==
    call.op = "get_sanitize_clamp_denominator" =>
        call.result = Ok(ClampDenominatorTable[market.asset_tier])

\* The clamp denominator of an Isolated market.
C9_Witness ==
    /\ call.op = "get_sanitize_clamp_denominator"
    /\ market.asset_tier = "Isolated"
    /\ call.result = Ok(Some(3))

FlatLiabilityWeight(mrt) ==
    IF mrt = "Initial"
    THEN market.initial_liability_weight
    ELSE market.maintenance_liability_weight

WeightCall == call.op \in {"get_asset_weight", "get_liability_weight"}

\* C2 as stated, for the calls that return a weight: with Maintenance both
\* get_asset_weight and get_liability_weight return the flat maintenance field
\* exactly, independent of size and imf_factor.
C2_MaintenanceIsFlat ==
    (WeightCall /\ call.mrt = "Maintenance" /\ IsOk(call.result)) =>
        call.result =
            Ok(IF call.op = "get_asset_weight"
               THEN market.maintenance_asset_weight
               ELSE market.maintenance_liability_weight)

\* C2 amended: get_asset_weight with Maintenance, whenever it returns, returns
\* the flat maintenance_asset_weight, whatever size and imf_factor are;
\* get_liability_weight with Maintenance does evaluate the premium curve, on
\* maintenance_liability_weight, and whenever it returns a weight that weight
\* is the larger of the curve's value and maintenance_liability_weight.
C2_MaintenanceWeights ==
    /\ (call.op = "get_asset_weight" /\ call.mrt = "Maintenance"
            /\ call.result # Panic)
           => call.result = Ok(market.maintenance_asset_weight)
    /\ (call.op = "get_liability_weight" /\ call.mrt = "Maintenance"
            /\ IsOk(call.result))
           => LET curve == calculate_size_premium_liability_weight(
                               call.scaled[2], market.imf_factor,
                               market.maintenance_liability_weight,
                               SPOT_WEIGHT_PRECISION_U128)
              IN /\ IsOk(curve)
                 /\ call.result[2] >= curve[2]
                 /\ call.result[2] >= market.maintenance_liability_weight
                 /\ call.result[2] \in
                        {curve[2], market.maintenance_liability_weight}

\* A Maintenance liability weight above the flat field.
C2_Witness ==
    /\ call.op = "get_liability_weight"
    /\ call.mrt = "Maintenance"
    /\ IsOk(call.result)
    /\ call.result[2] > market.maintenance_liability_weight

\* C3: whenever get_liability_weight returns a weight, it is at least the flat
\* base weight of the requirement type (initial_liability_weight for Initial,
\* maintenance_liability_weight for Maintenance), whatever the premium curve
\* produced.
C3_LiabilityWeightAtLeastBase ==
    (call.op = "get_liability_weight" /\ IsOk(call.result)) =>
        call.result[2] >= FlatLiabilityWeight(call.mrt)

\* The premium curve's own value lies below the base weight and the base
\* weight is returned.
C3_Witness ==
    /\ call.op = "get_liability_weight"
    /\ IsOk(call.result)
    /\ market.imf_factor > 0
    /\ FlatLiabilityWeight(call.mrt) > 0
    /\ LET curve == calculate_size_premium_liability_weight(
                        call.scaled[2], market.imf_factor,
                        FlatLiabilityWeight(call.mrt), SPOT_WEIGHT_PRECISION_U128)
       IN IsOk(curve) /\ curve[2] < FlatLiabilityWeight(call.mrt)
    /\ call.result[2] = FlatLiabilityWeight(call.mrt)

\* The exact (unbounded) values the unchecked steps are meant to compute.
ExactSizePrecision == 10 ^ market.decimals

SizeRescalingOverflows ==
    \/ ExactSizePrecision > U128_MAX
    \/ /\ ExactSizePrecision <= AMM_RESERVE_PRECISION
       /\ call.size * AMM_RESERVE_PRECISION > U128_MAX

\* C4: a call of get_asset_weight, get_liability_weight or get_precision in
\* which 10^decimals or size * AMM_RESERVE_PRECISION overflows its integer
\* width ends with the arithmetic error: it neither wraps, nor crashes, nor
\* returns a value computed from the overflowed one.
C4_OverflowIsArithmeticError ==
    /\ (WeightCall /\ SizeRescalingOverflows) => call.result = Err
    /\ (call.op = "get_precision" /\ ExactSizePrecision > U64_MAX)
           => call.result = Err

\* C5: get_available_deposits returns the deposit token amount minus the borrow
\* token amount when the borrow token amount is at most the deposit token
\* amount, the arithmetic error when it is larger (never a wrapped or clamped
\* value), and the arithmetic error when either conversion fails.
C5_AvailableDeposits ==
    call.op = "get_available_deposits" =>
        LET deposit == get_token_amount(market.deposit_balance, market, "Deposit")
            borrow == get_token_amount(market.borrow_balance, market, "Borrow")
        IN CASE ~IsOk(deposit) \/ ~IsOk(borrow) -> call.result = Err
             [] IsOk(deposit) /\ IsOk(borrow) /\ borrow[2] <= deposit[2] ->
                    call.result = Ok(deposit[2] - borrow[2])
             [] OTHER -> call.result = Err

\* Borrows exceed deposits and the call fails.
C5_Witness ==
    /\ call.op = "get_available_deposits"
    /\ LET deposit == get_token_amount(market.deposit_balance, market, "Deposit")
           borrow == get_token_amount(market.borrow_balance, market, "Borrow")
       IN IsOk(deposit) /\ IsOk(borrow) /\ borrow[2] > deposit[2]
    /\ call.result = Err

\* C6: get_margin_ratio(type) returns the flat liability weight of the type
\* minus MARGIN_PRECISION when that weight is at least MARGIN_PRECISION and the
\* arithmetic error when it is below; size and imf_factor play no part.
C6_MarginRatio ==
    call.op = "get_margin_ratio" =>
        IF FlatLiabilityWeight(call.mrt) >= MARGIN_PRECISION
        THEN call.result = Ok(FlatLiabilityWeight(call.mrt) - MARGIN_PRECISION)
        ELSE call.result = Err

\* The liability weight is below MARGIN_PRECISION and the call fails.
C6_Witness ==
    /\ call.op = "get_margin_ratio"
    /\ FlatLiabilityWeight(call.mrt) < MARGIN_PRECISION
    /\ call.result = Err

\* C7, for the calls that return a weight: with Initial, get_asset_weight
\* returns initial_asset_weight when size = 0 or imf_factor = 0, and for a
\* fixed imf_factor > 0 it is non-increasing in size.
C7_AssetWeightMonotonic ==
    (call.op = "get_asset_weight" /\ call.mrt = "Initial" /\ IsOk(call.result)) =>
        /\ (call.size = 0 \/ market.imf_factor = 0)
               => call.result[2] = market.initial_asset_weight
        /\ market.imf_factor > 0 =>
               \A smaller \in Sizes :
                   LET other == get_asset_weight(market, smaller, "Initial",
                                                 overflow_checks)
                   IN (smaller <= call.size /\ IsOk(other))
                          => call.result[2] <= other[2]

\* C10, for the calls that hand a size to the curve: in get_asset_weight and in
\* get_liability_weight that size is floor(size * AMM_RESERVE_PRECISION /
\* 10^decimals), which is size itself when 10^decimals = AMM_RESERVE_PRECISION
\* and 0 for every size below 10^decimals / AMM_RESERVE_PRECISION.
C10_RescaledSize ==
    (WeightCall /\ IsOk(call.scaled)) =>
        /\ call.scaled[2] =
               (call.size * AMM_RESERVE_PRECISION) \div ExactSizePrecision
        /\ ExactSizePrecision = AMM_RESERVE_PRECISION => call.scaled[2] = call.size
        /\ call.size * AMM_RESERVE_PRECISION < ExactSizePrecision
               => call.scaled[2] = 0

====
